---- MODULE Spec2Model ----
(***************************************************************************)
(* Model of package delayed (github.com/tmaxmax/mbti/pkg/delayed): the     *)
(* Delayed scheduler, its queue of Write / Wait operations, the            *)
(* configuration and enqueue calls, and the drain goroutine started by Do; *)
(* and of package mbti: functions, personalities and indicator strings.    *)
(*                                                                         *)
(* A text is a sequence of code points.  "^" stands for a combining mark   *)
(* (grapheme property Extend); every other code point is a base character.*)
(* Durations are integers (time.Duration counts nanoseconds).              *)
(*                                                                         *)
(* Spec       a scheduler that is filled and executed (type Delayed)       *)
(* SpecCalls  the configuration and enqueue calls alone, over all inputs   *)
(* SpecSeq    sequences of configuration and enqueue calls                 *)
(* SpecReconfig  a scheduler filled, reconfigured by accessors, executed   *)
(* SpecFair   Spec with timers that fire and sink writes that return       *)
(* SpecConvenience  the package-level delayed.Write and delayed.Wait      *)
(* SpecLate   a caller that enqueues only after Do has returned            *)
(* SpecBlocked  two executions whose channels are never received from      *)
(* SpecMbti   a personality built from an indicator or from two functions, *)
(*            and the personalities derived from it                        *)
(* SpecLegacy the earlier unexported type delayed, whose Do returns on an  *)
(*            error and whose pushWaitOperation queues zero durations      *)
(***************************************************************************)
EXTENDS Integers, Sequences, FiniteSets, TLC

(* ------------------------------ bounds -------------------------------- *)

\* number of Do calls issued by the callers
MaxDo == 2
\* number of configuration / enqueue calls issued by the callers
MaxCalls == 1
\* number of configuration / enqueue calls when only those are made
MaxConfigCalls == 1
\* longest queue the callers build
MaxQueue == 4
\* largest duration passed by the callers
MaxDur == 3
\* largest duration passed by the callers of a scheduler that is executed
MaxWait == 2
\* longest format string passed to Write, in tokens
MaxFormat == 2
\* number of calls in a sequence of configuration / enqueue calls
MaxSeqCalls == 2
\* number of Do calls when time is required to pass
MaxFairDo == 1
\* longest indicator passed to FromIndicator, without its -A / -T suffix
MaxIndicator == 4
\* number of calls, and of Do calls, on a scheduler that is reconfigured
\* between its enqueue calls and its execution
MaxReconfigCalls == 2
MaxReconfigDo == 1

(* ------------------------------ values -------------------------------- *)

Execs == 1..MaxDo

Durations == 0..MaxDur
ShortDurations == 0..MaxWait

\* io.StringWriter values; Nil is the nil interface value
Nil == "nil"
Stdout == "os.Stdout"
Writers == {Stdout, "buf"}

\* errors.New("operation canceled")
errCanceled == "operation canceled"
\* the error a failing sink returns from WriteString
errSink == "sink error"
NoErr == "nil"

Extend == "^"
Verb == "%v"
BaseChars == {"x"}
FormatTokens == BaseChars \cup {Extend, Verb}

RECURSIVE SeqsUpTo(_, _)
SeqsUpTo(S, n) ==
  IF n = 0 THEN {<<>>}
  ELSE LET shorter == SeqsUpTo(S, n - 1)
       IN  shorter \cup {Append(s, x) : s \in {t \in shorter : Len(t) = n - 1}, x \in S}

Formats == SeqsUpTo(FormatTokens, MaxFormat)

\* the dynamic values passed as variadic args of Write
DurArg(d) == [type |-> "time.Duration", val |-> d]
IntArg(n) == [type |-> "int", val |-> n]
\* no argument or one int, then possibly a trailing time.Duration
ArgLists ==
  {front \o back : front \in {<<>>, <<IntArg(2)>>},
                   back \in {<<>>} \cup {<<DurArg(d)>> : d \in Durations}}

(* --------------------------- pure functions --------------------------- *)

Digits == <<"0", "1", "2", "3", "4", "5", "6", "7", "8", "9">>

\* time.Duration.String for durations below ten nanoseconds
DurationString(d) == IF d = 0 THEN <<"0", "s">> ELSE <<Digits[d + 1], "n", "s">>

\* the %v rendering of an argument
FormatArg(a) ==
  CASE a.type = "time.Duration" -> DurationString(a.val)
    [] a.type = "int" -> <<Digits[a.val + 1]>>

TypeName(a) ==
  CASE a.type = "time.Duration" -> <<"t", "i", "m", "e", ".", "D", "u", "r", "a", "t", "i", "o", "n">>
    [] a.type = "int" -> <<"i", "n", "t">>

Missing == <<"%", "!", "v", "(", "M", "I", "S", "S", "I", "N", "G", ")">>

RECURSIVE ExtraList(_)
ExtraList(args) ==
  IF args = <<>> THEN <<>>
  ELSE TypeName(Head(args)) \o <<"=">> \o FormatArg(Head(args))
       \o (IF Len(args) > 1 THEN <<",", " ">> ELSE <<>>) \o ExtraList(Tail(args))

Extra(args) ==
  IF args = <<>> THEN <<>>
  ELSE <<"%", "!", "(", "E", "X", "T", "R", "A", " ">> \o ExtraList(args) \o <<")">>

\* fmt.Sprintf for formats whose only verb is %v
RECURSIVE Sprintf(_, _)
Sprintf(format, args) ==
  IF format = <<>> THEN Extra(args)
  ELSE IF Head(format) = Verb
       THEN IF args = <<>>
            THEN Missing \o Sprintf(Tail(format), args)
            ELSE FormatArg(Head(args)) \o Sprintf(Tail(format), Tail(args))
       ELSE <<Head(format)>> \o Sprintf(Tail(format), args)

\* uniseg.NewGraphemes: the grapheme clusters of a text, in order.  A cluster
\* boundary lies before every code point that is not Extend (rules GB9, GB999).
RECURSIVE Graphemes(_)
Graphemes(text) ==
  IF text = <<>> THEN <<>>
  ELSE LET rest == Graphemes(Tail(text))
       IN  IF rest # <<>> /\ Head(Head(rest)) = Extend
           THEN <<(<<Head(text)>> \o Head(rest))>> \o Tail(rest)
           ELSE <<(<<Head(text)>>)>> \o rest

GraphemeClusterCount(text) == Len(Graphemes(text))

getDuration(input, defaultDuration) ==
  IF Len(input) > 0 THEN input[1] ELSE defaultDuration

\* <<duration, remaining args>>
popDuration(args, defaultDuration) ==
  IF Len(args) > 0 /\ args[Len(args)].type = "time.Duration"
  THEN <<args[Len(args)].val, SubSeq(args, 1, Len(args) - 1)>>
  ELSE <<defaultDuration, args>>

waitOperation(duration) == [kind |-> "wait", Duration |-> duration]
writeOperation(text, writer) == [kind |-> "write", Text |-> text, Writer |-> writer]

\* pushWaitOperation that also queues a Wait of duration zero
pushWaitOperationZero(props, ops, duration) ==
  IF ~props.IgnoreDelays
  THEN Append(ops, waitOperation(duration))
  ELSE ops

\* pushWaitOperation that does not look at IgnoreDelays
pushWaitOperationAlways(props, ops, duration) ==
  IF duration # 0
  THEN Append(ops, waitOperation(duration))
  ELSE ops

pushWaitOperation(props, ops, duration) ==
  IF ~props.IgnoreDelays /\ duration # 0
  THEN Append(ops, waitOperation(duration))
  ELSE ops

pushPrintOperation(props, ops, text) ==
  Append(ops, writeOperation(text, props.Writer))

\* the loop of Delayed.Write over the grapheme clusters gs
RECURSIVE PushGraphemes(_, _, _, _, _)
PushGraphemes(props, ops, gs, delay, appendWaitOperations) ==
  IF gs = <<>> THEN ops
  ELSE LET waited == IF appendWaitOperations
                     THEN pushWaitOperation(props, ops, delay)
                     ELSE ops
       IN  PushGraphemes(props, pushPrintOperation(props, waited, Head(gs)),
                         Tail(gs), delay, TRUE)


\* a Write that uses an explicit duration for its own operations only and
\* leaves the stored print duration as it was
DelayedWriteOnce(props, ops, format, args) ==
  LET popped == popDuration(args, props.PrintDuration)
      props1 == [props EXCEPT !.PrintDuration = popped[1]]
      text == Sprintf(format, popped[2])
      graphemesCount == GraphemeClusterCount(text)
  IN  IF props1.PrintDuration = 0 \/ props1.IgnoreDelays
      THEN [props |-> props, ops |-> pushPrintOperation(props1, ops, text),
            text |-> text, fault |-> FALSE]
      ELSE IF graphemesCount = 0
           THEN [props |-> props, ops |-> ops, text |-> text, fault |-> TRUE]
           ELSE [props |-> props,
                 ops |-> PushGraphemes(props1, ops, Graphemes(text),
                                       props1.PrintDuration \div graphemesCount, FALSE),
                 text |-> text, fault |-> FALSE]

\* the operations Delayed.Write appends: popDuration, Sprintf, then either one
\* Write operation or one per grapheme cluster.  fault marks the integer
\* division by zero that a text without grapheme clusters causes.
DelayedWrite(props, ops, format, args) ==
  LET popped == popDuration(args, props.PrintDuration)
      props1 == [props EXCEPT !.PrintDuration = popped[1]]
      text == Sprintf(format, popped[2])
      graphemesCount == GraphemeClusterCount(text)
  IN  IF props1.PrintDuration = 0 \/ props1.IgnoreDelays
      THEN [props |-> props1, ops |-> pushPrintOperation(props1, ops, text),
            text |-> text, fault |-> FALSE]
      ELSE IF graphemesCount = 0
           THEN [props |-> props1, ops |-> ops, text |-> text, fault |-> TRUE]
           ELSE [props |-> props1,
                 ops |-> PushGraphemes(props1, ops, Graphemes(text),
                                       props1.PrintDuration \div graphemesCount, FALSE),
                 text |-> text, fault |-> FALSE]

\* a Wait that queues the stored duration without looking whether it is zero
DelayedWaitAlways(props, ops, input) ==
  LET props1 == [props EXCEPT !.WaitDuration = getDuration(input, props.WaitDuration)]
  IN  [props |-> props1, ops |-> pushWaitOperationZero(props1, ops, props1.WaitDuration)]

\* the operations Delayed.Wait appends
DelayedWait(props, ops, input) ==
  LET props1 == [props EXCEPT !.WaitDuration = getDuration(input, props.WaitDuration)]
  IN  IF props1.WaitDuration = 0
      THEN [props |-> props1, ops |-> ops]
      ELSE [props |-> props1, ops |-> pushWaitOperation(props1, ops, props1.WaitDuration)]

\* defaultProperties with a print duration, as if New() typed by default
\* var defaultProperties = Properties{Writer: os.Stdout}
defaultProperties ==
  [Writer |-> Stdout, WaitDuration |-> 0, PrintDuration |-> 0, IgnoreDelays |-> FALSE]

\* New: a nil writer is set back to os.Stdout
New(props) ==
  IF props.Writer = Nil THEN [props EXCEPT !.Writer = Stdout] ELSE props

(* ------------------------------- state -------------------------------- *)

VARIABLES
  properties,   \* Delayed.properties
  operations,   \* Delayed.operations (nil is the empty sequence)
  mu,           \* Delayed.mu: 0 when unlocked, else the drain that holds it
  pc,           \* position of the goroutine started by the e-th Do call
  cancelChan,   \* whether the e-th Do call was given the cancel channel
  batch,        \* the slice the range loop of drain e iterates
  idx,          \* index in batch of the operation drain e runs next
  timer,        \* time left on the timer of the Wait drain e is running
  err,          \* the error drain e got from an operation
  delivered,    \* the values the caller received from the errChan of drain e
  sink,         \* every WriteString call made, in order
  canceled,     \* whether the cancel channel has been closed
  panicked,     \* whether a call has raised a runtime panic
  ncalls,       \* number of configuration / enqueue calls made
  lastCall      \* the most recent call made by the program

vars == <<properties, operations, mu, pc, cancelChan, batch, idx, timer, err,
          delivered, sink, canceled, panicked, ncalls, lastCall>>

drainVars == <<pc, cancelChan, batch, idx, timer, err, delivered, sink, mu>>

PropertiesSet ==
  [Writer : {Nil, "buf"}, WaitDuration : {0, MaxDur},
   PrintDuration : Durations, IgnoreDelays : BOOLEAN]

ShortPropertiesSet ==
  [Writer : {Nil, "buf"}, WaitDuration : {0, MaxWait},
   PrintDuration : {0, MaxWait}, IgnoreDelays : BOOLEAN]

NoCall == [name |-> "none", in |-> <<>>, text |-> <<>>, ret |-> Nil]

InitWith(propertiesSet) ==
  /\ properties \in {New(p) : p \in propertiesSet}
  /\ operations = <<>>
  /\ mu = 0
  /\ pc = [e \in Execs |-> "idle"]
  /\ cancelChan = [e \in Execs |-> FALSE]
  /\ batch = [e \in Execs |-> <<>>]
  /\ idx = [e \in Execs |-> 0]
  /\ timer = [e \in Execs |-> 0]
  /\ err = [e \in Execs |-> NoErr]
  /\ delivered = [e \in Execs |-> <<>>]
  /\ sink = <<>>
  /\ canceled = FALSE
  /\ panicked = FALSE
  /\ ncalls = 0
  /\ lastCall = NoCall

(* ----------------- configuration and enqueue calls -------------------- *)

\* calls that take d.mu without waiting for the drain that holds it
CanCallUnlocked == ~panicked

\* d.mu.Lock() ... defer d.mu.Unlock() around a call: the call runs while no
\* drain holds the lock; a goroutine that panicked makes no further call
CanCall == mu = 0 /\ ~panicked

Called(name, in, text, ret) ==
  /\ ncalls' = ncalls + 1
  /\ lastCall' = [name |-> name, in |-> in, text |-> text, ret |-> ret]

Wait(input) ==
  /\ CanCall
  /\ LET r == DelayedWait(properties, operations, input)
     IN  /\ Len(r.ops) <= MaxQueue
         /\ properties' = r.props
         /\ operations' = r.ops
  /\ Called("Wait", input, <<>>, Nil)
  /\ UNCHANGED <<drainVars, canceled, panicked>>

Write(format, args) ==
  /\ CanCall
  /\ LET r == DelayedWrite(properties, operations, format, args)
     IN  /\ Len(r.ops) <= MaxQueue
         /\ properties' = r.props
         /\ operations' = r.ops
         /\ panicked' = r.fault
         /\ Called("Write", <<format, args>>, r.text, Nil)
  /\ UNCHANGED <<drainVars, canceled>>

IgnoreDelays(new) ==
  /\ CanCall
  /\ properties' = IF Len(new) > 0 THEN [properties EXCEPT !.IgnoreDelays = new[1]]
                                   ELSE properties
  /\ Called("IgnoreDelays", new, <<>>, properties.IgnoreDelays)
  /\ UNCHANGED <<operations, drainVars, canceled, panicked>>

\* a Writer accessor that stores a nil argument too
WriterStoresNil(new) ==
  /\ CanCall
  /\ properties' = IF Len(new) > 0 THEN [properties EXCEPT !.Writer = new[1]]
                                   ELSE properties
  /\ Called("Writer", new, <<>>, properties.Writer)
  /\ UNCHANGED <<operations, drainVars, canceled, panicked>>

Writer(new) ==
  /\ CanCall
  /\ properties' = IF Len(new) > 0 /\ new[1] # Nil THEN [properties EXCEPT !.Writer = new[1]]
                                                  ELSE properties
  /\ Called("Writer", new, <<>>, properties.Writer)
  /\ UNCHANGED <<operations, drainVars, canceled, panicked>>

WaitDuration(new) ==
  /\ CanCall
  /\ properties' = IF Len(new) > 0 THEN [properties EXCEPT !.WaitDuration = new[1]]
                                   ELSE properties
  /\ Called("WaitDuration", new, <<>>, properties.WaitDuration)
  /\ UNCHANGED <<operations, drainVars, canceled, panicked>>

PrintDuration(new) ==
  /\ CanCall
  /\ properties' = IF Len(new) > 0 THEN [properties EXCEPT !.PrintDuration = new[1]]
                                   ELSE properties
  /\ Called("PrintDuration", new, <<>>, properties.PrintDuration)
  /\ UNCHANGED <<operations, drainVars, canceled, panicked>>


(* ------------------------------ execution ----------------------------- *)

\* Do: makes errChan, starts the goroutine and returns; it does not take d.mu
Do(e, withCancel) ==
  /\ ~panicked
  /\ pc[e] = "idle"
  /\ \A f \in Execs : f < e => pc[f] # "idle"
  /\ pc' = [pc EXCEPT ![e] = "lock"]
  /\ cancelChan' = [cancelChan EXCEPT ![e] = withCancel]
  /\ UNCHANGED <<properties, operations, mu, batch, idx, timer, err, delivered,
                 sink, canceled, panicked, ncalls, lastCall>>

\* the code after the loop without d.operations = nil
AfterLoopKeep(e) ==
  /\ UNCHANGED operations
  /\ pc' = [pc EXCEPT ![e] = "sendnil"]

\* the statements after the range loop, up to the blocking send of nil
AfterLoop(e) ==
  /\ operations' = <<>>
  /\ pc' = [pc EXCEPT ![e] = "sendnil"]

\* a range loop that starts at the second operation
IterateOffByOne(e, b, i) ==
  LET j == IF i = 1 /\ Len(b) > 1 THEN 2 ELSE i
  IN  /\ idx' = [idx EXCEPT ![e] = j]
      /\ IF j > Len(b)
         THEN AfterLoop(e) /\ UNCHANGED timer
         ELSE /\ UNCHANGED operations
              /\ pc' = [pc EXCEPT ![e] = b[j].kind]
              /\ timer' = IF b[j].kind = "wait" THEN [timer EXCEPT ![e] = b[j].Duration]
                                                ELSE timer

\* the range loop of drain e reaches index i of the slice b it iterates
Iterate(e, b, i) ==
  /\ idx' = [idx EXCEPT ![e] = i]
  /\ IF i > Len(b)
     THEN AfterLoop(e) /\ UNCHANGED timer
     ELSE /\ UNCHANGED operations
          /\ pc' = [pc EXCEPT ![e] = b[i].kind]
          /\ timer' = IF b[i].kind = "wait" THEN [timer EXCEPT ![e] = b[i].Duration]
                                            ELSE timer

\* a goroutine that starts its loop without waiting for d.mu
DrainLockUnlocked(e) ==
  /\ pc[e] = "lock"
  /\ mu' = e
  /\ batch' = [batch EXCEPT ![e] = operations]
  /\ Iterate(e, operations, 1)
  /\ UNCHANGED <<properties, cancelChan, err, delivered, sink, canceled, panicked,
                 ncalls, lastCall>>

\* d.mu.Lock() in the goroutine; the range expression is evaluated once
DrainLock(e) ==
  /\ pc[e] = "lock"
  /\ mu = 0
  /\ mu' = e
  /\ batch' = [batch EXCEPT ![e] = operations]
  /\ Iterate(e, operations, 1)
  /\ UNCHANGED <<properties, cancelChan, err, delivered, sink, canceled, panicked,
                 ncalls, lastCall>>

\* a Do that sends every error, the canceled outcome included
SendsEveryError(error) == TRUE

\* a Do that sends no error of an operation
SendsNoError(error) == FALSE

\* if !errors.Is(err, errCanceled) { errChan <- err }
SendsError(error) == error # errCanceled

\* a loop that leaves the queue as it is when an operation was canceled
ReturnedKeepsOnCancel(e, error) ==
  /\ err' = [err EXCEPT ![e] = error]
  /\ IF error = NoErr
     THEN Iterate(e, batch[e], idx[e] + 1)
     ELSE IF SendsError(error)
          THEN /\ pc' = [pc EXCEPT ![e] = "senderr"]
               /\ UNCHANGED <<operations, idx, timer>>
          ELSE AfterLoopKeep(e) /\ UNCHANGED <<idx, timer>>

\* op.Run returned error to the loop of drain e
Returned(e, error) ==
  /\ err' = [err EXCEPT ![e] = error]
  /\ IF error = NoErr
     THEN Iterate(e, batch[e], idx[e] + 1)
     ELSE IF SendsError(error)
          THEN /\ pc' = [pc EXCEPT ![e] = "senderr"]
               /\ UNCHANGED <<operations, idx, timer>>
          ELSE AfterLoop(e) /\ UNCHANGED <<idx, timer>>

\* a Wait that hears the cancellation although Do was given no channel
CancelWinsWithoutChannel(e) == canceled

\* the select of the Wait drain e runs has received from cancel: it is blocked
\* in the select (or enters it) with the timer not yet fired and cancel closed
CancelWins(e) == cancelChan[e] /\ canceled

\* a Write operation that writes to the writer configured when it is run
RunWriteCurrentWriter(e, result) ==
  /\ pc[e] = "write"
  /\ LET op == batch[e][idx[e]]
     IN  sink' = Append(sink, [exec |-> e, idx |-> idx[e], Text |-> op.Text,
                               Writer |-> properties.Writer, err |-> result])
  /\ Returned(e, result)
  /\ UNCHANGED <<properties, mu, cancelChan, batch, delivered, canceled, panicked,
                 ncalls, lastCall>>

\* a Write that looks at the cancel channel first and returns the canceled
\* outcome without writing when it is closed
RunWriteUnlessCanceled(e, result) ==
  /\ pc[e] = "write"
  /\ LET op == batch[e][idx[e]]
     IN  IF CancelWins(e)
         THEN UNCHANGED sink /\ Returned(e, errCanceled)
         ELSE /\ sink' = Append(sink, [exec |-> e, idx |-> idx[e], Text |-> op.Text,
                                       Writer |-> op.Writer, err |-> result])
              /\ Returned(e, result)
  /\ UNCHANGED <<properties, mu, cancelChan, batch, delivered, canceled, panicked,
                 ncalls, lastCall>>

\* writeOperation.Run: one WriteString call on the captured writer, which
\* returns result; the cancel channel is ignored
RunWrite(e, result) ==
  /\ pc[e] = "write"
  /\ LET op == batch[e][idx[e]]
     IN  sink' = Append(sink, [exec |-> e, idx |-> idx[e], Text |-> op.Text,
                               Writer |-> op.Writer, err |-> result])
  /\ Returned(e, result)
  /\ UNCHANGED <<properties, mu, cancelChan, batch, delivered, canceled, panicked,
                 ncalls, lastCall>>

\* time passes for the timer of a running Wait whose select is still blocked
Tick(e) ==
  /\ pc[e] = "wait"
  /\ timer[e] > 0
  /\ ~CancelWins(e)
  /\ timer' = [timer EXCEPT ![e] = timer[e] - 1]
  /\ UNCHANGED <<properties, operations, mu, pc, cancelChan, batch, idx, err,
                 delivered, sink, canceled, panicked, ncalls, lastCall>>

\* waitOperation.Run, case <-time.After(w.Duration): returns nil
WaitElapsed(e) ==
  /\ pc[e] = "wait"
  /\ timer[e] = 0
  /\ Returned(e, NoErr)
  /\ UNCHANGED <<properties, mu, cancelChan, batch, delivered, sink, canceled,
                 panicked, ncalls, lastCall>>

\* waitOperation.Run, case <-cancel: returns errCanceled.  A timer that fired
\* first has already woken the select; with a duration of zero both cases can
\* be ready and select picks either
WaitCanceled(e) ==
  /\ pc[e] = "wait"
  /\ CancelWins(e)
  /\ timer[e] > 0 \/ batch[e][idx[e]].Duration = 0
  /\ Returned(e, errCanceled)
  /\ UNCHANGED <<properties, mu, cancelChan, batch, delivered, sink, canceled,
                 panicked, ncalls, lastCall>>

\* the caller reads each errChan once (cmd/main.go: <-d.Write(...).Do())
CanReceive(e) == delivered[e] = <<>>

\* errChan <- err meets the caller's receive; then break and the code after the loop
DeliverErr(e) ==
  /\ pc[e] = "senderr"
  /\ CanReceive(e)
  /\ delivered' = [delivered EXCEPT ![e] = Append(delivered[e], err[e])]
  /\ AfterLoop(e)
  /\ UNCHANGED <<properties, mu, cancelChan, batch, idx, timer, err, sink, canceled,
                 panicked, ncalls, lastCall>>

\* a send of nil that does not wait for the receive, as on a channel made with
\* a buffer: the goroutine goes on to the deferred d.mu.Unlock()
DeliverNilBuffered(e) ==
  /\ pc[e] = "sendnil"
  /\ pc' = [pc EXCEPT ![e] = "done"]
  /\ mu' = 0
  /\ UNCHANGED <<properties, operations, cancelChan, batch, idx, timer, err, sink,
                 canceled, panicked, ncalls, lastCall, delivered>>

\* errChan <- nil meets the caller's receive; then the deferred d.mu.Unlock()
DeliverNil(e) ==
  /\ pc[e] = "sendnil"
  /\ CanReceive(e)
  /\ delivered' = [delivered EXCEPT ![e] = Append(delivered[e], NoErr)]
  /\ pc' = [pc EXCEPT ![e] = "done"]
  /\ mu' = 0
  /\ UNCHANGED <<properties, operations, cancelChan, batch, idx, timer, err, sink,
                 canceled, panicked, ncalls, lastCall>>

\* the owner of the cancel channel closes it
Cancel ==
  /\ ~canceled
  /\ canceled' = TRUE
  /\ UNCHANGED <<properties, operations, drainVars, panicked, ncalls, lastCall>>

WriterInputs == {<<>>, <<Nil>>} \cup {<<w>> : w \in Writers}
DurationInputs == {<<>>} \cup {<<d>> : d \in Durations}
ShortDurationInputs == {<<>>} \cup {<<d>> : d \in ShortDurations}
BoolInputs == {<<>>, <<TRUE>>, <<FALSE>>}
ShortFormats == {<<"x">>, <<"x", "x", "^">>, <<"x", "^", "x", "x">>}

ShortArgLists == {<<>>} \cup {<<DurArg(d)>> : d \in ShortDurations}

\* a scheduler that is configured, filled and executed
Init == InitWith(ShortPropertiesSet)

Drain ==
  \/ \E e \in Execs, withCancel \in BOOLEAN : Do(e, withCancel)
  \/ \E e \in Execs : DrainLock(e)
  \/ \E e \in Execs, result \in {NoErr, errSink} : RunWrite(e, result)
  \/ \E e \in Execs : Tick(e)
  \/ \E e \in Execs : WaitElapsed(e)
  \/ \E e \in Execs : WaitCanceled(e)
  \/ \E e \in Execs : DeliverErr(e)
  \/ \E e \in Execs : DeliverNil(e)
  \/ Cancel

\* the callers make at most MaxCalls enqueue calls
FewCalls == ncalls < MaxCalls

Next ==
  \/ \E input \in ShortDurationInputs : FewCalls /\ Wait(input)
  \/ \E format \in ShortFormats, args \in ShortArgLists : FewCalls /\ Write(format, args)
  \/ Drain

Spec == Init /\ [][Next]_vars

\* the configuration and enqueue calls alone, over all their inputs
InitCalls == InitWith(PropertiesSet)

MoreCalls == ncalls < MaxConfigCalls

NextCalls ==
  \/ \E input \in DurationInputs : MoreCalls /\ Wait(input)
  \/ \E format \in Formats, args \in ArgLists : MoreCalls /\ Write(format, args)
  \/ \E new \in BoolInputs : MoreCalls /\ IgnoreDelays(new)
  \/ \E new \in WriterInputs : MoreCalls /\ Writer(new)
  \/ \E new \in DurationInputs : MoreCalls /\ WaitDuration(new)
  \/ \E new \in DurationInputs : MoreCalls /\ PrintDuration(new)

SpecCalls == InitCalls /\ [][NextCalls]_vars

\* sequences of configuration and enqueue calls on one scheduler
SeqDurationInputs == {<<>>, <<0>>, <<MaxDur>>}
SeqFormats == {<<>>, <<"x">>, <<"x", "x">>, <<Verb>>}
SeqArgLists == {<<>>, <<DurArg(0)>>, <<DurArg(MaxDur)>>, <<IntArg(2)>>}

SeqCalls == ncalls < MaxSeqCalls

NextSeq ==
  \/ \E input \in SeqDurationInputs : SeqCalls /\ Wait(input)
  \/ \E format \in SeqFormats, args \in SeqArgLists : SeqCalls /\ Write(format, args)
  \/ \E new \in BoolInputs : SeqCalls /\ IgnoreDelays(new)
  \/ \E new \in WriterInputs : SeqCalls /\ Writer(new)
  \/ \E new \in SeqDurationInputs : SeqCalls /\ WaitDuration(new)
  \/ \E new \in SeqDurationInputs : SeqCalls /\ PrintDuration(new)

SpecSeq == InitCalls /\ [][NextSeq]_vars


\* a scheduler whose timers fire and whose sink returns from every WriteString
FairExecs == 1..MaxFairDo

NextFair ==
  \/ \E input \in ShortDurationInputs : FewCalls /\ Wait(input)
  \/ \E format \in ShortFormats, args \in ShortArgLists : FewCalls /\ Write(format, args)
  \/ \E e \in FairExecs, withCancel \in BOOLEAN : Do(e, withCancel)
  \/ \E e \in FairExecs : DrainLock(e)
  \/ \E e \in FairExecs, result \in {NoErr, errSink} : RunWrite(e, result)
  \/ \E e \in FairExecs : Tick(e)
  \/ \E e \in FairExecs : WaitElapsed(e)
  \/ \E e \in FairExecs : WaitCanceled(e)
  \/ \E e \in FairExecs : DeliverErr(e)
  \/ \E e \in FairExecs : DeliverNil(e)
  \/ Cancel

\* time.After fires after its duration and WriteString returns; nothing is
\* assumed of the callers, of the owner of the cancel channel or of the lock
Fairness ==
  \A e \in FairExecs :
    /\ WF_vars(Tick(e))
    /\ WF_vars(WaitElapsed(e))
    /\ WF_vars(\E result \in {NoErr, errSink} : RunWrite(e, result))

SpecFair == Init /\ [][NextFair]_vars /\ Fairness

\* a scheduler that is filled, reconfigured through its accessors and executed
ReconfigExecs == 1..MaxReconfigDo
ReconfigDurationInputs == {<<>>, <<0>>, <<MaxWait>>}
ReconfigFormats == {<<"x", "x">>}
ReconfigCalls == ncalls < MaxReconfigCalls

NextReconfig ==
  \/ \E input \in ReconfigDurationInputs : ReconfigCalls /\ Wait(input)
  \/ \E format \in ReconfigFormats, args \in ShortArgLists :
       ReconfigCalls /\ Write(format, args)
  \/ \E new \in BoolInputs : ReconfigCalls /\ IgnoreDelays(new)
  \/ \E new \in WriterInputs : ReconfigCalls /\ Writer(new)
  \/ \E new \in ReconfigDurationInputs : ReconfigCalls /\ WaitDuration(new)
  \/ \E new \in ReconfigDurationInputs : ReconfigCalls /\ PrintDuration(new)
  \/ \E e \in ReconfigExecs, withCancel \in BOOLEAN : Do(e, withCancel)
  \/ \E e \in ReconfigExecs : DrainLock(e)
  \/ \E e \in ReconfigExecs, result \in {NoErr, errSink} : RunWrite(e, result)
  \/ \E e \in ReconfigExecs : Tick(e)
  \/ \E e \in ReconfigExecs : WaitElapsed(e)
  \/ \E e \in ReconfigExecs : WaitCanceled(e)
  \/ \E e \in ReconfigExecs : DeliverErr(e)
  \/ \E e \in ReconfigExecs : DeliverNil(e)
  \/ Cancel

SpecReconfig == Init /\ [][NextReconfig]_vars

\* callers that make every kind of call while Do calls overlap
NextBlocked ==
  \/ \E input \in {<<MaxWait>>} : FewCalls /\ Wait(input)
  \/ \E format \in ReconfigFormats, args \in {<<>>} : FewCalls /\ Write(format, args)
  \/ \E new \in {<<>>, <<TRUE>>} : FewCalls /\ IgnoreDelays(new)
  \/ \E new \in {<<>>, <<"buf">>} : FewCalls /\ Writer(new)
  \/ \E new \in {<<>>, <<MaxWait>>} : FewCalls /\ WaitDuration(new)
  \/ \E new \in {<<>>, <<MaxWait>>} : FewCalls /\ PrintDuration(new)
  \/ Drain

SpecBlocked == Init /\ [][NextBlocked]_vars

\* the first Do call has returned
DoReturned == pc[1] # "idle"

\* a caller that enqueues only after its first Do call has returned:
\* ch := d.Do(); d.Write(...)
NextLate ==
  \/ \E input \in ShortDurationInputs : FewCalls /\ DoReturned /\ Wait(input)
  \/ \E format \in ShortFormats, args \in ShortArgLists :
        FewCalls /\ DoReturned /\ Write(format, args)
  \/ Drain

SpecLate == Init /\ [][NextLate]_vars

(* ---------------- the package functions Write and Wait ---------------- *)

\* delayed.Write(format, args...): New().Write(format, args...) on a scheduler
\* of its own, which replaces the one the caller had
ConvenienceWrite(format, args) ==
  /\ ~panicked
  /\ LET r == DelayedWrite(New(defaultProperties), <<>>, format, args)
     IN  /\ properties' = r.props
         /\ operations' = r.ops
         /\ panicked' = r.fault
         /\ lastCall' = [name |-> "delayed.Write", in |-> <<format, args>>,
                         text |-> r.text, ret |-> Nil]
  /\ ncalls' = 1
  /\ UNCHANGED <<drainVars, canceled>>

\* a delayed.Wait that queues its Wait operation itself, as DoWait builds one
ConvenienceWaitPushes(duration) ==
  /\ ~panicked
  /\ properties' = [defaultProperties EXCEPT !.WaitDuration = duration]
  /\ operations' = <<waitOperation(duration)>>
  /\ lastCall' = [name |-> "delayed.Wait", in |-> <<duration>>, text |-> <<>>, ret |-> Nil]
  /\ ncalls' = 1
  /\ UNCHANGED <<drainVars, canceled, panicked>>

\* delayed.Wait(duration): New().Wait(duration)
ConvenienceWait(duration) ==
  /\ ~panicked
  /\ LET r == DelayedWait(New(defaultProperties), <<>>, <<duration>>)
     IN  /\ properties' = r.props
         /\ operations' = r.ops
  /\ lastCall' = [name |-> "delayed.Wait", in |-> <<duration>>, text |-> <<>>, ret |-> Nil]
  /\ ncalls' = 1
  /\ UNCHANGED <<drainVars, canceled, panicked>>

InitConvenience == InitWith({defaultProperties})

NextConvenience ==
  \/ \E format \in Formats, args \in ArgLists : ConvenienceWrite(format, args)
  \/ \E duration \in Durations : ConvenienceWait(duration)

SpecConvenience == InitConvenience /\ [][NextConvenience]_vars

(* ------------------- package mbti: personalities ---------------------- *)

focusInternal == "I"
focusExternal == "E"
KindFeeling == "F"
KindThinking == "T"
KindSensation == "S"
KindIntuition == "N"
tacticJudging == "J"
tacticProspecting == "P"
\* the zero rune of a field that was never assigned
ZeroRune == "NUL"

\* an invertFocus that answers I for every focus
invertFocusInternal(focus) == focusInternal

invertFocus(focus) ==
  IF focus = focusInternal THEN focusExternal ELSE focusInternal

invertKind(function) ==
  CASE function = KindFeeling -> KindThinking
    [] function = KindThinking -> KindFeeling
    [] function = KindSensation -> KindIntuition
    [] OTHER -> KindSensation

Function(focus, kind) == [focus |-> focus, kind |-> kind]

IsJudging(f) == f.kind = KindFeeling \/ f.kind = KindThinking
IsProspecting(f) == f.kind = KindSensation \/ f.kind = KindIntuition
IsIntroverted(f) == f.focus = focusInternal
IsExtroverted(f) == f.focus = focusExternal

\* Function.invertFocus (InvertFocus in the earlier file)
InvertFocus(f) == Function(invertFocus(f.focus), f.kind)

isValidFunction(function) ==
  /\ IsJudging(function) # IsProspecting(function)
  /\ IsIntroverted(function) # IsExtroverted(function)

Personality(primary, auxiliary, tertiary, inferior) ==
  [primary |-> primary, auxiliary |-> auxiliary, tertiary |-> tertiary,
   inferior |-> inferior]

Unconscious(p) ==
  Personality(InvertFocus(p.primary), InvertFocus(p.auxiliary),
              InvertFocus(p.tertiary), InvertFocus(p.inferior))

Subconscious(p) == Personality(p.inferior, p.tertiary, p.auxiliary, p.primary)

\* SuperEgo as p.Subconscious().Unconscious()
SuperEgo(p) == Unconscious(Subconscious(p))

\* SuperEgo of the earlier file, which builds the four functions itself
SuperEgoDirect(p) ==
  Personality(InvertFocus(p.inferior), InvertFocus(p.tertiary),
              InvertFocus(p.auxiliary), InvertFocus(p.primary))

\* Personality.String: the four letters of the indicator
String(p) ==
  LET extrovertedFunction == IF IsExtroverted(p.primary) THEN p.primary ELSE p.auxiliary
  IN  <<(IF IsExtroverted(p.primary) THEN focusExternal ELSE focusInternal)>>
      \o (IF IsProspecting(p.primary) THEN <<p.primary.kind, p.auxiliary.kind>>
                                       ELSE <<p.auxiliary.kind, p.primary.kind>>)
      \o <<(IF IsProspecting(extrovertedFunction) THEN tacticProspecting
                                                  ELSE tacticJudging)>>

\* FromDominantFunctions: <<p>> for a pointer to the personality p, <<>> for
\* the nil pointer that is returned with an error
FromDominantFunctions(primary, auxiliary) ==
  IF ~isValidFunction(primary) \/ ~isValidFunction(auxiliary)
  THEN <<>>
  ELSE IF primary.focus = auxiliary.focus \/ IsJudging(primary) = IsJudging(auxiliary)
       THEN <<>>
       ELSE <<Personality(primary, auxiliary,
                          Function(primary.focus, invertKind(auxiliary.kind)),
                          Function(auxiliary.focus, invertKind(primary.kind)))>>

\* unicode.ToUpper on the letters the callers pass
ToUpper(r) ==
  CASE r = "i" -> "I" [] r = "e" -> "E" [] r = "n" -> "N" [] r = "s" -> "S"
    [] r = "t" -> "T" [] r = "f" -> "F" [] r = "j" -> "J" [] r = "p" -> "P"
    [] OTHER -> r

HasSuffix(str, suffix) ==
  /\ Len(str) >= Len(suffix)
  /\ SubSeq(str, Len(str) - Len(suffix) + 1, Len(str)) = suffix

\* getIndicatorRunes: the four runes upper-cased, or an error
getIndicatorRunes(indicator) ==
  LET stripped == IF HasSuffix(indicator, <<"-", "A">>) \/ HasSuffix(indicator, <<"-", "T">>)
                  THEN SubSeq(indicator, 1, Len(indicator) - 2)
                  ELSE indicator
  IN  IF Len(stripped) # 4
      THEN [err |-> TRUE, focusRune |-> ZeroRune, perceivingRune |-> ZeroRune,
            judgingRune |-> ZeroRune, tacticsRune |-> ZeroRune]
      ELSE [err |-> FALSE, focusRune |-> ToUpper(stripped[1]),
            perceivingRune |-> ToUpper(stripped[2]),
            judgingRune |-> ToUpper(stripped[3]),
            tacticsRune |-> ToUpper(stripped[4])]

IsIndicatorString(indicator) ==
  LET r == getIndicatorRunes(indicator)
  IN  /\ ~r.err
      /\ r.focusRune = focusInternal \/ r.focusRune = focusExternal
      /\ r.perceivingRune = KindIntuition \/ r.perceivingRune = KindSensation
      /\ r.judgingRune = KindThinking \/ r.judgingRune = KindFeeling
      /\ r.tacticsRune = tacticJudging \/ r.tacticsRune = tacticProspecting

\* the kinds FromIndicator gives to <<primary, auxiliary>>
IndicatorKinds(r, primary) ==
  IF r.tacticsRune = tacticJudging
  THEN IF IsExtroverted(primary) THEN <<r.judgingRune, r.perceivingRune>>
                                 ELSE <<r.perceivingRune, r.judgingRune>>
  ELSE IF r.tacticsRune = tacticProspecting
       THEN IF IsExtroverted(primary) THEN <<r.perceivingRune, r.judgingRune>>
                                      ELSE <<r.judgingRune, r.perceivingRune>>
       ELSE <<ZeroRune, ZeroRune>>

FromIndicator(indicator) ==
  LET r == getIndicatorRunes(indicator)
      primary == Function(r.focusRune, ZeroRune)
  IN  IF r.err THEN <<>>
      ELSE IF IsIntroverted(primary) = IsExtroverted(primary) THEN <<>>
      ELSE LET kinds == IndicatorKinds(r, primary)
           IN  FromDominantFunctions(Function(primary.focus, kinds[1]),
                                     Function(invertFocus(primary.focus), kinds[2]))

\* the inputs of the callers
IndicatorLetters == {"I", "E", "N", "S", "T", "F", "J", "P", "e"}
IndicatorSuffixes == {<<>>, <<"-", "A">>, <<"-", "T">>, <<"-", "a">>}
Indicators ==
  {body \o suffix : body \in SeqsUpTo(IndicatorLetters, MaxIndicator),
                    suffix \in IndicatorSuffixes}
Functions ==
  {Function(focus, kind) : focus \in {focusInternal, focusExternal, "X"},
                           kind \in {KindFeeling, KindThinking, KindSensation,
                                     KindIntuition, ZeroRune}}

\* the program builds one personality from its input
NoPersonalityYet == lastCall = NoCall

MbtiCalls == {"FromIndicator", "FromDominantFunctions", "Unconscious", "Subconscious",
              "SuperEgo"}

\* the last call returned a personality
HasPersonality == lastCall.name \in MbtiCalls /\ lastCall.ret # <<>>

MbtiCalled(name, in, ret) ==
  /\ lastCall' = [name |-> name, in |-> in, text |-> <<>>, ret |-> ret]
  /\ UNCHANGED <<properties, operations, drainVars, canceled, panicked, ncalls>>

FromIndicatorCall(indicator) ==
  MbtiCalled("FromIndicator", indicator, FromIndicator(indicator))

FromDominantFunctionsCall(primary, auxiliary) ==
  MbtiCalled("FromDominantFunctions", <<primary, auxiliary>>,
             FromDominantFunctions(primary, auxiliary))

UnconsciousCall ==
  /\ HasPersonality
  /\ MbtiCalled("Unconscious", lastCall.ret, <<Unconscious(lastCall.ret[1])>>)

SubconsciousCall ==
  /\ HasPersonality
  /\ MbtiCalled("Subconscious", lastCall.ret, <<Subconscious(lastCall.ret[1])>>)

SuperEgoCall ==
  /\ HasPersonality
  /\ MbtiCalled("SuperEgo", lastCall.ret, <<SuperEgo(lastCall.ret[1])>>)

NextMbti ==
  \/ NoPersonalityYet /\ \E indicator \in Indicators : FromIndicatorCall(indicator)
  \/ NoPersonalityYet /\ \E primary, auxiliary \in Functions :
                            FromDominantFunctionsCall(primary, auxiliary)
  \/ UnconsciousCall
  \/ SubconsciousCall
  \/ SuperEgoCall

SpecMbti == InitConvenience /\ [][NextMbti]_vars

(* ------------- the earlier type delayed (unexported) ------------------ *)

\* delayed.pushWaitOperation: a duration of zero is queued too
LegacyPushWaitOperation(props, ops, duration) ==
  IF ~props.IgnoreDelays
  THEN Append(ops, waitOperation(duration))
  ELSE ops

\* the loop of delayed.Write over the grapheme clusters gs
RECURSIVE LegacyPushGraphemes(_, _, _, _, _)
LegacyPushGraphemes(props, ops, gs, delay, appendWaitOperations) ==
  IF gs = <<>> THEN ops
  ELSE LET waited == IF appendWaitOperations
                     THEN LegacyPushWaitOperation(props, ops, delay)
                     ELSE ops
       IN  LegacyPushGraphemes(props, pushPrintOperation(props, waited, Head(gs)),
                               Tail(gs), delay, TRUE)

\* delayed.Write(text, printDuration...): the text is not a format
LegacyDelayedWrite(props, ops, text, input) ==
  LET props1 == [props EXCEPT !.PrintDuration = getDuration(input, props.PrintDuration)]
      graphemesCount == GraphemeClusterCount(text)
  IN  IF props1.PrintDuration = 0 \/ props1.IgnoreDelays
      THEN [props |-> props1, ops |-> pushPrintOperation(props1, ops, text),
            text |-> text, fault |-> FALSE]
      ELSE IF graphemesCount = 0
           THEN [props |-> props1, ops |-> ops, text |-> text, fault |-> TRUE]
           ELSE [props |-> props1,
                 ops |-> LegacyPushGraphemes(props1, ops, Graphemes(text),
                                             props1.PrintDuration \div graphemesCount, FALSE),
                 text |-> text, fault |-> FALSE]

\* delayed.Wait
LegacyDelayedWait(props, ops, input) ==
  LET props1 == [props EXCEPT !.WaitDuration = getDuration(input, props.WaitDuration)]
  IN  IF props1.WaitDuration = 0
      THEN [props |-> props1, ops |-> ops]
      ELSE [props |-> props1,
            ops |-> LegacyPushWaitOperation(props1, ops, props1.WaitDuration)]

LegacyWait(input) ==
  /\ CanCall
  /\ LET r == LegacyDelayedWait(properties, operations, input)
     IN  /\ Len(r.ops) <= MaxQueue
         /\ properties' = r.props
         /\ operations' = r.ops
  /\ Called("Wait", input, <<>>, Nil)
  /\ UNCHANGED <<drainVars, canceled, panicked>>

LegacyWrite(text, input) ==
  /\ CanCall
  /\ LET r == LegacyDelayedWrite(properties, operations, text, input)
     IN  /\ Len(r.ops) <= MaxQueue
         /\ properties' = r.props
         /\ operations' = r.ops
         /\ panicked' = r.fault
         /\ Called("Write", <<text, input>>, r.text, Nil)
  /\ UNCHANGED <<drainVars, canceled>>

\* return in the goroutine of delayed.Do: the deferred d.mu.Unlock() runs
LegacyReturn(e) ==
  /\ pc' = [pc EXCEPT ![e] = "done"]
  /\ mu' = 0

\* op.Run returned error to the loop of delayed.Do: an error ends the
\* goroutine by return, after the send unless the error is errCanceled
LegacyReturned(e, error) ==
  /\ err' = [err EXCEPT ![e] = error]
  /\ IF error = NoErr
     THEN Iterate(e, batch[e], idx[e] + 1) /\ UNCHANGED mu
     ELSE IF SendsError(error)
          THEN /\ pc' = [pc EXCEPT ![e] = "senderr"]
               /\ UNCHANGED <<operations, idx, timer, mu>>
          ELSE LegacyReturn(e) /\ UNCHANGED <<operations, idx, timer>>

LegacyRunWrite(e, result) ==
  /\ pc[e] = "write"
  /\ LET op == batch[e][idx[e]]
     IN  sink' = Append(sink, [exec |-> e, idx |-> idx[e], Text |-> op.Text,
                               Writer |-> op.Writer, err |-> result])
  /\ LegacyReturned(e, result)
  /\ UNCHANGED <<properties, cancelChan, batch, delivered, canceled, panicked,
                 ncalls, lastCall>>

LegacyWaitElapsed(e) ==
  /\ pc[e] = "wait"
  /\ timer[e] = 0
  /\ LegacyReturned(e, NoErr)
  /\ UNCHANGED <<properties, cancelChan, batch, delivered, sink, canceled,
                 panicked, ncalls, lastCall>>

LegacyWaitCanceled(e) ==
  /\ pc[e] = "wait"
  /\ CancelWins(e)
  /\ timer[e] > 0 \/ batch[e][idx[e]].Duration = 0
  /\ LegacyReturned(e, errCanceled)
  /\ UNCHANGED <<properties, cancelChan, batch, delivered, sink, canceled,
                 panicked, ncalls, lastCall>>

\* errChan <- err meets the caller's receive; then return
LegacyDeliverErr(e) ==
  /\ pc[e] = "senderr"
  /\ CanReceive(e)
  /\ delivered' = [delivered EXCEPT ![e] = Append(delivered[e], err[e])]
  /\ LegacyReturn(e)
  /\ UNCHANGED <<properties, operations, cancelChan, batch, idx, timer, err, sink,
                 canceled, panicked, ncalls, lastCall>>

ShortTexts == {<<"x">>, <<"x", "x", "^">>, <<"x", "^", "x", "x">>}

NextLegacy ==
  \/ \E input \in ShortDurationInputs : FewCalls /\ LegacyWait(input)
  \/ \E text \in ShortTexts, input \in ShortDurationInputs : FewCalls /\ LegacyWrite(text, input)
  \/ \E e \in Execs, withCancel \in BOOLEAN : Do(e, withCancel)
  \/ \E e \in Execs : DrainLock(e)
  \/ \E e \in Execs, result \in {NoErr, errSink} : LegacyRunWrite(e, result)
  \/ \E e \in Execs : Tick(e)
  \/ \E e \in Execs : LegacyWaitElapsed(e)
  \/ \E e \in Execs : LegacyWaitCanceled(e)
  \/ \E e \in Execs : LegacyDeliverErr(e)
  \/ \E e \in Execs : DeliverNil(e)
  \/ Cancel

SpecLegacy == Init /\ [][NextLegacy]_vars

(* ------------------------------ properties ---------------------------- *)

\* the WriteString calls made by drain e, in order
SinkOf(e) == SelectSeq(sink, LAMBDA s : s.exec = e)

\* the positions up to n of the Write operations of the slice b, ascending
RECURSIVE WritePositions(_, _)
WritePositions(b, n) ==
  IF n = 0 THEN <<>>
  ELSE IF b[n].kind = "write" THEN Append(WritePositions(b, n - 1), n)
                              ELSE WritePositions(b, n - 1)

IsSuffix(s, t) ==
  /\ Len(s) <= Len(t)
  /\ SubSeq(t, Len(t) - Len(s) + 1, Len(t)) = s

\* the operations of its batch that drain e has not run
Remaining(e) == SubSeq(batch[e], idx[e] + 1, Len(batch[e]))

Sending(e) == pc[e] \in {"senderr", "sendnil"}

\* C1: every Do delivers exactly one value on its errChan: a drain that has
\* ended has delivered one value, and no drain delivers or tries to send a
\* second one.
C1_ExactlyOneValue ==
  \A e \in Execs :
    /\ Len(delivered[e]) + (IF Sending(e) THEN 1 ELSE 0) <= 1
    /\ pc[e] = "done" => Len(delivered[e]) = 1

\* C2: a drain runs the operations of the queue one at a time in queue order:
\* the sink calls of a drain are those of the Write operations of its batch,
\* none skipped and none out of order, and no two drains run an operation at
\* the same time.
C2_RunInEnqueueOrder ==
  /\ \A e \in Execs :
       LET s == SinkOf(e)
       IN  /\ \A k \in 1..Len(s) :
                /\ s[k].idx \in 1..Len(batch[e])
                /\ batch[e][s[k].idx] = writeOperation(s[k].Text, s[k].Writer)
           /\ s # <<>> =>
                [k \in 1..Len(s) |-> s[k].idx] = WritePositions(batch[e], s[Len(s)].idx)
           /\ pc[e] \in {"write", "wait"} =>
                /\ idx[e] \in 1..Len(batch[e])
                /\ batch[e][idx[e]].kind = pc[e]
                /\ \A k \in 1..Len(s) : s[k].idx < idx[e]
                /\ Len(s) = Len(WritePositions(batch[e], idx[e] - 1))
  /\ Cardinality({e \in Execs : pc[e] \in {"write", "wait"}}) <= 1

C2_Witness ==
  \E e \in Execs :
    /\ Len(SinkOf(e)) >= 2
    /\ SinkOf(e)[1].Text # SinkOf(e)[2].Text
    /\ \E i \in 1..Len(batch[e]) : batch[e][i].kind = "wait"
    /\ pc[e] = "done"

\* C3: a Wait that is pending when the cancel channel is closed returns the
\* canceled outcome; a drain whose Wait was canceled runs no operation queued
\* after that Wait and sends nil, not an error.
C3_CancelStopsAtWait ==
  /\ [][\A e \in Execs :
          (pc[e] = "wait" /\ timer[e] > 0 /\ cancelChan[e] /\ canceled /\ pc'[e] # "wait")
            => (err'[e] = errCanceled /\ pc'[e] = "sendnil" /\ sink' = sink)]_vars
  /\ [](\A e \in Execs :
          err[e] = errCanceled =>
            /\ batch[e][idx[e]].kind = "wait"
            /\ \A k \in 1..Len(SinkOf(e)) : SinkOf(e)[k].idx < idx[e]
            /\ \/ pc[e] = "sendnil" /\ delivered[e] = <<>>
               \/ pc[e] = "done" /\ delivered[e] = <<NoErr>>)

\* the queue [Write, Wait, Write], canceled at the Wait
C3_Witness ==
  \E e \in Execs :
    /\ err[e] = errCanceled
    /\ pc[e] = "done"
    /\ Len(batch[e]) = 3
    /\ idx[e] = 2
    /\ batch[e][1].kind = "write"
    /\ batch[e][3].kind = "write"
    /\ Len(SinkOf(e)) = 1

\* C4: when a canceled drain delivers its completion value, the queue still
\* holds the operations the drain started with.
C4_QueueKeptOnCancel ==
  [][\A e \in Execs :
       (err[e] = errCanceled /\ delivered[e] = <<>> /\ delivered'[e] # <<>>)
         => operations' = batch[e]]_vars

\* C5: a failing WriteString stops the drain: it is the last sink call of the
\* drain, the sink has been called once for each Write of the batch up to the
\* failing one, and the value sent on errChan is the error WriteString returned.
C5_WriteErrorStops ==
  \A e \in Execs :
    LET s == SinkOf(e)
    IN  \A k \in 1..Len(s) :
          s[k].err # NoErr =>
            /\ k = Len(s)
            /\ Len(s) = Len(WritePositions(batch[e], s[k].idx))
            /\ idx[e] = s[k].idx
            /\ err[e] = s[k].err
            /\ \/ pc[e] = "senderr" /\ delivered[e] = <<>>
               \/ delivered[e] = <<s[k].err>>

\* three Writes, the second failing
C5_Witness ==
  \E e \in Execs :
    /\ Len(batch[e]) = 3
    /\ \A i \in 1..3 : batch[e][i].kind = "write"
    /\ Len(SinkOf(e)) = 2
    /\ SinkOf(e)[2].err = errSink
    /\ delivered[e] = <<errSink>>

\* C6: after a drain failed on a write error and the caller received the
\* error, the queue still ends with the operations the drain did not run.
C6_QueueKeptOnFailure ==
  \A e \in Execs :
    (err[e] = errSink /\ delivered[e] # <<>> /\ mu = e)
      => IsSuffix(Remaining(e), operations)

\* C7: a drain that ran every operation without error leaves the queue empty,
\* and a drain that finds the queue empty calls the sink for nothing and sends nil.
C7_CompletedRunClears ==
  /\ [][\A e \in Execs :
          (pc[e] \in {"write", "wait"} /\ pc'[e] = "sendnil" /\ err'[e] = NoErr)
            => operations' = <<>>]_vars
  /\ [][\A e \in Execs :
          (pc[e] = "lock" /\ pc'[e] # "lock" /\ operations = <<>>)
            => pc'[e] = "sendnil" /\ sink' = sink /\ operations' = <<>>]_vars
  /\ [](\A e \in Execs :
          (pc[e] \in {"sendnil", "done"} /\ batch[e] = <<>>)
            => /\ SinkOf(e) = <<>>
               /\ err[e] = NoErr
               /\ pc[e] = "done" => delivered[e] = <<NoErr>>)

\* a completed drain of a non-empty queue, then a second drain with no
\* enqueue in between
C7_Witness ==
  /\ MaxDo >= 2
  /\ pc[1] = "done" /\ err[1] = NoErr /\ batch[1] # <<>>
  /\ Len(SinkOf(1)) > 0
  /\ pc[2] = "done" /\ batch[2] = <<>> /\ delivered[2] = <<NoErr>>
  /\ operations = <<>>

\* C8: once the caller has received the error of a failed drain, the drain's
\* goroutine has ended and released the lock, so later calls are not blocked.
C8_UsableAfterFailure ==
  \A e \in Execs :
    (err[e] = errSink /\ delivered[e] # <<>>) => (pc[e] = "done" /\ mu # e)

\* Write and Wait operations alternating, a Wait before every grapheme but the first
Interleaved(gs, delay, w) ==
  [i \in 1..(2 * Len(gs) - 1) |->
     IF i % 2 = 1 THEN writeOperation(gs[(i + 1) \div 2], w) ELSE waitOperation(delay)]

WritesOnly(gs, w) == [i \in 1..Len(gs) |-> writeOperation(gs[i], w)]

\* the step is a call of the method name that returned
IsCall(name) == ncalls' = ncalls + 1 /\ lastCall'.name = name /\ ~panicked'

\* a Write call with delays: N > 0 graphemes, stored print duration D > 0
DelayedWriteCall ==
  /\ IsCall("Write")
  /\ ~properties'.IgnoreDelays
  /\ properties'.PrintDuration > 0
  /\ GraphemeClusterCount(lastCall'.text) > 0

\* C9 as stated: N Writes and N-1 Waits of D/N, also when D/N is 0.
C9_WaitBeforeEveryGrapheme ==
  [][DelayedWriteCall =>
       LET gs == Graphemes(lastCall'.text)
           D == properties'.PrintDuration
       IN  operations' = operations \o Interleaved(gs, D \div Len(gs), properties'.Writer)]_vars

\* C9 amended: Write appends one Write operation per grapheme, in text order;
\* when D/N is not 0 it appends a Wait of D/N before every grapheme but the
\* first, and when D < N it appends no Wait.
C9_WaitsUnlessZero ==
  [][DelayedWriteCall =>
       LET gs == Graphemes(lastCall'.text)
           D == properties'.PrintDuration
       IN  operations' = operations \o
             (IF D \div Len(gs) # 0
              THEN Interleaved(gs, D \div Len(gs), properties'.Writer)
              ELSE WritesOnly(gs, properties'.Writer))]_vars

\* two graphemes over three nanoseconds: the quotient is truncated to 1
C9_Witness ==
  /\ lastCall.name = "Write"
  /\ ~properties.IgnoreDelays
  /\ properties.PrintDuration = 3
  /\ Len(Graphemes(lastCall.text)) = 2
  /\ Len(operations) = 3
  /\ operations[2] = waitOperation(1)

\* C10: with IgnoreDelays set, Write appends one Write operation holding the
\* whole text, and Wait appends nothing but stores an explicit duration.
C10_IgnoreDelays ==
  [][properties.IgnoreDelays =>
       /\ IsCall("Write") =>
            /\ operations' = Append(operations,
                                    writeOperation(lastCall'.text, properties.Writer))
            /\ lastCall'.text = Sprintf(lastCall'.in[1],
                                        popDuration(lastCall'.in[2], 0)[2])
       /\ IsCall("Wait") =>
            /\ operations' = operations
            /\ lastCall'.in # <<>> => properties'.WaitDuration = lastCall'.in[1]]_vars

\* Wait(2) on a scheduler made with IgnoreDelays and another stored wait duration
C10_Witness ==
  /\ properties.IgnoreDelays
  /\ lastCall.name = "Wait"
  /\ lastCall.in = <<2>>
  /\ properties.WaitDuration = 2
  /\ operations = <<>>

\* C11: a Wait call whose resulting wait duration is zero (an explicit zero, or
\* no argument and a stored default of zero) leaves the queue unchanged, with
\* IgnoreDelays set or not; no Wait call appends a Wait operation of duration zero.
C11_ZeroWaitAppendsNothing ==
  [][IsCall("Wait") =>
       /\ getDuration(lastCall'.in, properties.WaitDuration) = 0 => operations' = operations
       /\ \A i \in (Len(operations) + 1)..Len(operations') :
            operations'[i] # waitOperation(0)
       /\ Len(operations') <= Len(operations) + 1]_vars

\* Wait(0) on a scheduler without IgnoreDelays whose queue holds operations
\* and whose stored wait duration was not zero
C11_Witness ==
  /\ lastCall.name = "Wait"
  /\ lastCall.in = <<0>>
  /\ ~properties.IgnoreDelays
  /\ properties.WaitDuration = 0
  /\ ncalls = 2
  /\ operations = <<waitOperation(MaxDur)>>

\* C12: a Write call whose final text has no grapheme returns normally and
\* appends exactly one Write operation and no Wait operation, for every stored
\* print duration, a non-zero one without IgnoreDelays included.
C12_EmptyTextSingleWrite ==
  [][(ncalls' = ncalls + 1 /\ lastCall'.name = "Write"
        /\ GraphemeClusterCount(lastCall'.text) = 0)
       => /\ ~panicked'
          /\ operations' = Append(operations, writeOperation(<<>>, properties.Writer))]_vars

\* the step is a call of accessor name, which gets or sets the field field
AccessorStep(name, field) ==
  IsCall(name) =>
    /\ lastCall'.ret = properties[field]
    /\ operations' = operations
    /\ lastCall'.in = <<>> => properties' = properties
    /\ lastCall'.in # <<>> =>
         properties' = IF field = "Writer" /\ lastCall'.in[1] = Nil
                       THEN properties
                       ELSE [properties EXCEPT ![field] = lastCall'.in[1]]

\* C14: each accessor returns the value stored before the call; without an
\* argument it changes nothing, with one argument it stores the argument,
\* except that Writer(nil) keeps the stored writer; none changes the queue.
C14_AccessorsGetOrSet ==
  [][/\ AccessorStep("IgnoreDelays", "IgnoreDelays")
     /\ AccessorStep("Writer", "Writer")
     /\ AccessorStep("WaitDuration", "WaitDuration")
     /\ AccessorStep("PrintDuration", "PrintDuration")]_vars

\* Writer(nil) on a scheduler whose queue holds a Write to the writer "buf"
C14_Witness ==
  /\ lastCall = [name |-> "Writer", in |-> <<Nil>>, text |-> <<>>, ret |-> "buf"]
  /\ properties.Writer = "buf"
  /\ operations = <<writeOperation(<<"x">>, "buf")>>

\* whether the variadic args of a Write call end with a time.Duration
EndsWithDuration(args) == args # <<>> /\ args[Len(args)].type = "time.Duration"

\* C19: a duration passed to Wait replaces the stored wait duration; a trailing
\* duration passed to Write replaces the stored print duration and is not a
\* format argument; a call without a duration keeps the stored value and uses
\* it: with a stored print duration of 0 a Write appends one undelayed Write
\* operation, otherwise its Waits last the stored duration over the graphemes,
\* and a Wait appends a Wait of the stored wait duration.
C19_ExplicitDurationsStick ==
  [][/\ IsCall("Wait") =>
          LET explicit == lastCall'.in # <<>>
              D == properties'.WaitDuration
          IN  /\ explicit => D = lastCall'.in[1]
              /\ ~explicit => D = properties.WaitDuration
              /\ (D # 0 /\ ~properties.IgnoreDelays)
                   => operations' = Append(operations, waitOperation(D))
     /\ IsCall("Write") =>
          LET format == lastCall'.in[1]
              args == lastCall'.in[2]
              explicit == EndsWithDuration(args)
              D == properties'.PrintDuration
              text == lastCall'.text
              gs == Graphemes(text)
          IN  /\ explicit => /\ D = args[Len(args)].val
                             /\ text = Sprintf(format, SubSeq(args, 1, Len(args) - 1))
              /\ ~explicit => /\ D = properties.PrintDuration
                              /\ text = Sprintf(format, args)
              /\ D = 0 => operations' =
                            Append(operations, writeOperation(text, properties.Writer))
              /\ (D # 0 /\ ~properties.IgnoreDelays /\ D >= Len(gs))
                   => operations' = operations \o
                        Interleaved(gs, D \div Len(gs), properties.Writer)]_vars

\* Write("x", ...) then Write("xx") without a duration: the second call waits
\* the stored MaxDur / 2 between its two graphemes
C19_Witness ==
  /\ ncalls = 2
  /\ lastCall.name = "Write"
  /\ lastCall.in = <<(<<"x", "x">>), <<>>>>
  /\ properties.PrintDuration = MaxDur
  /\ ~properties.IgnoreDelays
  /\ Len(operations) = 4
  /\ operations[1].Text = <<"x">>
  /\ SubSeq(operations, 2, 4) = Interleaved(<<(<<"x">>), (<<"x">>)>>, MaxDur \div 2,
                                            properties.Writer)

\* the drains that found operations in the queue
FedDrains == {e \in Execs : batch[e] # <<>>}

\* C15: a drain that ends by cancellation empties the queue: the operations it
\* did not run are gone when it sends its completion value, and no other drain
\* runs them (every other drain that found operations found those of another
\* enqueue call).
C15_CancelClearsQueue ==
  /\ [][\A e \in Execs :
          (pc[e] = "wait" /\ pc'[e] # "wait" /\ err'[e] = errCanceled)
            => operations' = <<>>]_vars
  /\ [](\A e \in Execs :
          err[e] = errCanceled =>
            /\ mu = e => operations = <<>>
            /\ Cardinality(FedDrains \ {e}) < ncalls
            /\ ncalls = 1 => \A k \in 1..Len(sink) : sink[k].exec = e)

\* the queue [Write, Wait, Write] canceled at the Wait, then a second drain
C15_Witness ==
  \E e, f \in Execs :
    /\ e # f
    /\ err[e] = errCanceled /\ pc[e] = "done"
    /\ Len(batch[e]) = 3 /\ idx[e] = 2
    /\ Remaining(e) = <<batch[e][3]>> /\ batch[e][3].kind = "write"
    /\ pc[f] = "done" /\ batch[f] = <<>> /\ delivered[f] = <<NoErr>>
    /\ operations = <<>>
    /\ Len(sink) = 1

\* the position of the first Wait of the slice b, Len(b) + 1 when it has none
FirstWait(b) ==
  IF \E i \in 1..Len(b) : b[i].kind = "wait"
  THEN CHOOSE i \in 1..Len(b) :
         b[i].kind = "wait" /\ \A j \in 1..(i - 1) : b[j].kind = "write"
  ELSE Len(b) + 1

WriteFailed(e) == \E k \in 1..Len(SinkOf(e)) : SinkOf(e)[k].err # NoErr

\* C17: cancellation never prevents or interrupts a Write: a drain leaves a
\* Write operation only by calling the sink, whatever the state of the cancel
\* channel, and never with the canceled outcome; a drain that has left its loop
\* without a write error has written every Write queued before the first Wait,
\* and has run the whole queue when the queue holds no Wait.
C17_CancelNeverStopsWrite ==
  /\ [][\A e \in Execs :
          (pc[e] = "write" /\ (pc'[e] # "write" \/ idx'[e] # idx[e]))
            => /\ Len(sink') = Len(sink) + 1
               /\ LET w == sink'[Len(sink')]
                  IN  /\ w.exec = e /\ w.idx = idx[e]
                      /\ batch[e][idx[e]] = writeOperation(w.Text, w.Writer)
                      /\ err'[e] = w.err
               /\ err'[e] # errCanceled]_vars
  /\ [](\A e \in Execs :
          (pc[e] \in {"senderr", "sendnil", "done"} /\ ~WriteFailed(e))
            => /\ Len(SinkOf(e)) >= FirstWait(batch[e]) - 1
               /\ FirstWait(batch[e]) = Len(batch[e]) + 1
                    => idx[e] = Len(batch[e]) + 1 /\ err[e] = NoErr)

\* a drain with a closed cancel channel that has run a queue of three Writes
C17_Witness ==
  \E e \in Execs :
    /\ cancelChan[e] /\ canceled
    /\ pc[e] = "done" /\ err[e] = NoErr
    /\ Len(batch[e]) = 3
    /\ FirstWait(batch[e]) = 4
    /\ Len(SinkOf(e)) = 3

\* the drains that are between d.mu.Lock() and the deferred d.mu.Unlock()
InFlight == {e \in Execs : pc[e] \in {"write", "wait", "senderr", "sendnil"}}

\* C20: overlapping Do calls are serialized by the lock: at most one drain is
\* between Lock and Unlock and it is the holder of d.mu; the sink calls of one
\* drain are contiguous in the sink, never interleaved with another drain's;
\* while a drain is in flight a drain started later waits for the lock; and
\* when a drain has completed without error every operation of its batch ran
\* once in that drain and no other drain ran it (with a single enqueue call,
\* every other drain found the queue empty).
C20_DrainsSerialized ==
  /\ Cardinality(InFlight) <= 1
  /\ \A e \in InFlight : mu = e
  /\ \A i, k \in 1..Len(sink) :
       (i < k /\ sink[i].exec = sink[k].exec)
         => \A j \in i..k : sink[j].exec = sink[i].exec
  /\ \A e \in Execs :
       (pc[e] \in {"sendnil", "done"} /\ err[e] = NoErr) =>
         /\ [k \in 1..Len(SinkOf(e)) |-> SinkOf(e)[k].idx]
              = WritePositions(batch[e], Len(batch[e]))
         /\ (batch[e] # <<>> /\ ncalls = 1) =>
              \A f \in Execs \ {e} : batch[f] = <<>> /\ SinkOf(f) = <<>>

\* two drains, both completion values received: one ran the queue
\* [Write, Wait, Write], the other found the queue empty
C20_Witness ==
  \E e, f \in Execs :
    /\ e # f
    /\ pc[e] = "done" /\ pc[f] = "done"
    /\ delivered[e] = <<NoErr>> /\ delivered[f] = <<NoErr>>
    /\ Len(batch[e]) = 3 /\ Len(SinkOf(e)) = 2
    /\ batch[f] = <<>>
    /\ Len(sink) = 2

\* C16: a running Wait returns the canceled outcome only when the cancel
\* channel it was given is closed while its timer has not fired, and returns
\* nil once its whole duration has elapsed otherwise.  A drain started without
\* a cancel channel never gets the canceled outcome, each of its Waits ends
\* after its duration, and the drain reaches the end of its queue unless a
\* Write fails.
C16_WaitRacesCancel ==
  /\ [][\A e \in Execs :
          (pc[e] = "wait" /\ (pc'[e] # "wait" \/ idx'[e] # idx[e]))
            => \/ /\ err'[e] = errCanceled
                  /\ cancelChan[e] /\ canceled
                  /\ timer[e] > 0
               \/ /\ err'[e] = NoErr
                  /\ timer[e] = 0]_vars
  /\ [][\A e \in Execs :
          (pc[e] = "wait" /\ timer'[e] # timer[e] /\ idx'[e] = idx[e])
            => timer'[e] = timer[e] - 1 /\ timer[e] <= batch[e][idx[e]].Duration]_vars
  /\ [](\A e \in Execs :
          ~cancelChan[e] =>
            /\ err[e] # errCanceled
            /\ (pc[e] \in {"sendnil", "done"} /\ ~WriteFailed(e))
                 => idx[e] = Len(batch[e]) + 1)
  /\ \A e \in FairExecs :
       (pc[e] \in {"write", "wait"} /\ ~cancelChan[e])
         ~> (pc[e] = "senderr" \/ (pc[e] = "sendnil" /\ idx[e] = Len(batch[e]) + 1))

\* a drain without cancel channel that ran the queue [Write, Wait, Write] to
\* its end although the cancel channel of the program was closed
C16_Witness ==
  \E e \in FairExecs :
    /\ ~cancelChan[e] /\ canceled
    /\ pc[e] = "sendnil" /\ err[e] = NoErr
    /\ Len(batch[e]) = 3 /\ batch[e][2].kind = "wait"
    /\ idx[e] = 4
    /\ Len(SinkOf(e)) = 2

\* C13: calls and a running drain are mutually exclusive.  From the step in
\* which a drain takes the lock to the step in which it releases it, no call
\* is made: the configuration is unchanged and the queue changes only when the
\* holder clears it.  The queue is read (into the slice of the range loop) or
\* changed only by a call that finds the lock free or by the drain that holds
\* or takes the lock.
C13_CallsExcludeDrain ==
  /\ [][mu # 0 =>
          /\ ncalls' = ncalls /\ lastCall' = lastCall
          /\ properties' = properties
          /\ operations' # operations
               => operations' = <<>> /\ pc[mu] # pc'[mu] /\ mu' = mu]_vars
  /\ [][(operations' # operations \/ properties' # properties)
          => \/ mu = 0 /\ mu' = 0 /\ ncalls' = ncalls + 1
             \/ mu # 0 /\ mu' = mu /\ pc[mu] # pc'[mu]]_vars
  /\ [][\A e \in Execs :
          (pc[e] = "lock" /\ pc'[e] # "lock")
            => mu = 0 /\ mu' = e /\ batch'[e] = operations]_vars
  /\ [][\A e \in Execs :
          batch'[e] # batch[e] => pc[e] = "lock" /\ mu' = e]_vars
  /\ [](mu # 0 => pc[mu] \in {"write", "wait", "senderr", "sendnil"})

\* a drain waiting in the middle of its queue, holding the lock, while the
\* callers still have a call to make; the queue and configuration are those
\* the one call made before the drain left
C13_Witness ==
  \E e \in Execs :
    /\ mu = e /\ pc[e] = "wait" /\ idx[e] = 2
    /\ ncalls = 1 /\ ncalls < MaxReconfigCalls
    /\ lastCall.name = "Write"
    /\ operations = batch[e] /\ Len(operations) = 3
    /\ Len(sink) = 1

IsPrefix(s, t) == Len(s) <= Len(t) /\ SubSeq(t, 1, Len(s)) = s

C22_BatchIsQueueAtDo ==
  /\ batch[1] = <<>>
  /\ SinkOf(1) = <<>>

\* no call that takes d.mu can return and no goroutine of Do can take d.mu
Blocked ==
  /\ ~ENABLED Wait(<<MaxWait>>)
  /\ ~ENABLED Write(<<"x">>, <<>>)
  /\ ~ENABLED IgnoreDelays(<<>>)
  /\ ~ENABLED Writer(<<>>)
  /\ ~ENABLED WaitDuration(<<>>)
  /\ ~ENABLED PrintDuration(<<>>)
  /\ \A f \in Execs : ~ENABLED DrainLock(f)

\* the lock is released only in a step in which the caller receives the
\* holder's value from errChan, and while a drain holds the lock every Wait,
\* Write, accessor and other drain is blocked
ReleaseOnlyOnReceive ==
  /\ [][(mu # 0 /\ mu' # mu)
          => /\ mu' = 0
             /\ Len(delivered'[mu]) = Len(delivered[mu]) + 1
             /\ pc'[mu] = "done"]_vars
  /\ [](mu # 0 => Blocked)
  /\ [][\A e \in Execs :
          (Sending(e) /\ delivered'[e] = delivered[e])
            => /\ UNCHANGED <<properties, operations, mu, batch, sink, ncalls, delivered>>
               /\ \A f \in Execs : pc'[f] # pc[f] => pc[f] = "idle"]_vars

UpperIndicator(indicator) ==
  LET stripped == IF HasSuffix(indicator, <<"-", "A">>) \/ HasSuffix(indicator, <<"-", "T">>)
                  THEN SubSeq(indicator, 1, Len(indicator) - 2)
                  ELSE indicator
  IN  [i \in 1..Len(stripped) |-> ToUpper(stripped[i])]

\* C24: whenever FromIndicator returns a personality, the personality's
\* String() is the upper-cased four-letter indicator that was passed (without
\* its -A or -T suffix), and IsIndicatorString accepts the input.
C24_IndicatorRoundTrip ==
  (lastCall.name = "FromIndicator" /\ lastCall.ret # <<>>)
    => /\ String(lastCall.ret[1]) = UpperIndicator(lastCall.in)
       /\ IsIndicatorString(lastCall.in)

\* C25: on every personality built by FromDominantFunctions (and on every one
\* derived from it), Unconscious and Subconscious are each their own inverse
\* and commute, and both implementations of SuperEgo, the composed one and the
\* one that builds the four functions directly, equal Subconscious followed by
\* Unconscious; a SuperEgo call returns exactly that personality.
C25_SuperEgoIsComposition ==
  HasPersonality =>
    LET p == lastCall.ret[1]
    IN  /\ Unconscious(Unconscious(p)) = p
        /\ Subconscious(Subconscious(p)) = p
        /\ Unconscious(Subconscious(p)) = Subconscious(Unconscious(p))
        /\ SuperEgo(p) = Unconscious(Subconscious(p))
        /\ SuperEgoDirect(p) = Unconscious(Subconscious(p))
        /\ lastCall.name = "SuperEgo"
             => /\ lastCall.ret[1] = SuperEgoDirect(lastCall.in[1])
                /\ lastCall.ret[1] = Unconscious(Subconscious(lastCall.in[1]))

\* SuperEgo was called on a personality and returned a different one, whose
\* primary function is the inferior function of the receiver with its focus
\* inverted
C25_Witness ==
  /\ lastCall.name = "SuperEgo"
  /\ lastCall.ret[1] # lastCall.in[1]
  /\ lastCall.ret[1].primary.kind = lastCall.in[1].inferior.kind
  /\ lastCall.ret[1].primary.focus # lastCall.in[1].inferior.focus

====
